---------------------------- MODULE Spec2Model ----------------------------
(***************************************************************************)
(* AprioriMiner (src/apriori.py): level-wise frequent-itemset mining with  *)
(* Boundary-Set pruning, a sampling estimator and active-set shrinking.    *)
(*                                                                         *)
(* Items are CPython ints, so an item is its own hash.  An itemset is the  *)
(* frozenset object the code builds: its hash table, a sequence of slots   *)
(* holding an item or 0 (an empty slot).  list(itemset) is the slots in    *)
(* order, which is what the prefix test of generate_candidates compares.   *)
(* min_support is the rational num/den, kept as the pair <<num, den>>.     *)
(***************************************************************************)
EXTENDS Integers, Sequences, FiniteSets

\* ------------------------------------------------------------------ bounds
MaxTransactions == 2

\* -------------------------------------------------------- program constants
DefaultSampleSize == 1000
ZScoreNum == 196
ZScoreDen == 100

\* ------------------------------------------------------------ input domains
\* 2 and 10 share slot 2 of an 8-slot table
TransactionPool == { {2, 3, 4, 10}, {2, 3, 4}, {10} }

\* the pool of the runs over five items
ClosurePool == { {1, 2, 3, 4, 10} }

MinSupports == { <<1, 2>>, <<1, 1>>, <<0, 1>>, <<11, 10>> }

SampleSizes == { 0, 1, DefaultSampleSize }

\* ------------------------------------------------- frozenset (hash table)
Min(S) == CHOOSE x \in S : \A y \in S : x <= y

Elems(tab) == { tab[i] : i \in 1..Len(tab) } \ {0}

RECURSIVE ListFrom(_, _)
ListFrom(tab, i) ==
    IF i > Len(tab) THEN << >>
    ELSE IF tab[i] = 0 THEN ListFrom(tab, i + 1)
    ELSE <<tab[i]>> \o ListFrom(tab, i + 1)

\* list(itemset): the items in slot order
ListOf(tab) == ListFrom(tab, 1)

EmptyTable(size) == [s \in 1..size |-> 0]

\* The slot an absent key goes to: the first free slot of the probe
\* sequence starting at hash & mask (slots are numbered from 0, tab[s + 1]
\* is slot s).
RECURSIVE Probe(_, _, _)
Probe(tab, i, perturb) ==
    LET mask == Len(tab) - 1
        span == IF i + 9 <= mask THEN 9 ELSE 0
        free == { j \in i..(i + span) : tab[j + 1] = 0 }
    IN  IF free # {} THEN Min(free)
        ELSE Probe(tab, (i * 5 + 1 + (perturb \div 32)) % (mask + 1),
                   perturb \div 32)

InsertClean(tab, key) ==
    [tab EXCEPT ![Probe(tab, key % Len(tab), key) + 1] = key]

RECURSIVE TableSize(_, _)
TableSize(size, minused) ==
    IF size > minused THEN size ELSE TableSize(size * 2, minused)

RECURSIVE InsertAllClean(_, _)
InsertAllClean(tab, keys) ==
    IF keys = << >> THEN tab
    ELSE InsertAllClean(InsertClean(tab, Head(keys)), Tail(keys))

Resize(tab, minused) ==
    InsertAllClean(EmptyTable(TableSize(8, minused)), ListOf(tab))

AddEntry(tab, key) ==
    IF key \in Elems(tab) THEN tab
    ELSE LET t == InsertClean(tab, key)
         IN  IF Cardinality(Elems(t)) * 5 < (Len(t) - 1) * 3 THEN t
             ELSE Resize(t, Cardinality(Elems(t)) * 4)

RECURSIVE AddAll(_, _)
AddAll(tab, keys) ==
    IF keys = << >> THEN tab
    ELSE AddAll(AddEntry(tab, Head(keys)), Tail(keys))

\* set_merge: so |= other
Merge(so, other) ==
    LET fill == Cardinality(Elems(so))
        used == Cardinality(Elems(other))
        pre  == IF (fill + used) * 5 >= (Len(so) - 1) * 3
                THEN Resize(so, (fill + used) * 2) ELSE so
    IN  IF fill = 0 /\ Len(pre) = Len(other) THEN other
        ELSE AddAll(pre, ListOf(other))

\* frozenset([item])
Singleton(item) == AddEntry(EmptyTable(8), item)

\* items1.union(items2): a copy of items1, then items2 merged into it
Union(items1, items2) == Merge(Merge(EmptyTable(8), items1), items2)


\* ------------------------------------------------------------------- state
VARIABLES
    transactions,        \* constructor argument: the transaction list
    min_support,         \* constructor argument <<num, den>>, then self.min_support
    sample_size_arg,     \* constructor argument sample_size
    n_transactions,      \* self.n_transactions
    sample_size,         \* self.sample_size
    frequent_itemsets,   \* self.frequent_itemsets: level -> set of itemsets
    boundary_sets,       \* self.boundary_sets (as sets of items)
    unique_transactions, \* self.unique_transactions: the active indices
    pc,                  \* "new", "ready", "loop", "count", "done", "crashed"
    k,                   \* the level of mine_frequent_itemsets
    candidates,          \* the local candidates of mine_frequent_itemsets
    error,               \* the exception that ended a call, or "none"
    calls,               \* how many times mine_frequent_itemsets was called
    estimateAllTrue,     \* history: no estimate_support call rejected so far
    estimateLog,         \* history: the first call's accepted / rejected sets
    sameAnswers,         \* history: later calls answered as the first did
    firstResult          \* history: the table the first call returned

vars == << transactions, min_support, sample_size_arg, n_transactions,
           sample_size, frequent_itemsets, boundary_sets,
           unique_transactions, pc, k, candidates, error, calls,
           estimateAllTrue, estimateLog, sameAnswers, firstResult >>

args == << transactions, min_support, sample_size_arg >>
history == << estimateAllTrue, estimateLog, sameAnswers, firstResult >>

\* ----------------------------------------------------------------- helpers
EmptyDict == [j \in {} |-> {}]

Put(d, key, value) ==
    [j \in DOMAIN d \cup {key} |-> IF j = key THEN value ELSE d[j]]

\* the table with every itemset reduced to its set of items
ElemsOf(table) == [j \in DOMAIN table |-> { Elems(t) : t \in table[j] }]

AllIndices == 1..Len(transactions)

\* number of transactions among idxs that contain itemset S
CountIn(S, idxs) == Cardinality({ i \in idxs : S \subseteq transactions[i] })

\* count / self.n_transactions >= self.min_support
\* (and, for comparison, the count taken for the ratio)
MeetsSupportRawCount(count) == count * min_support[2] >= min_support[1]
MeetsSupport(count) ==
    count * min_support[2] >= min_support[1] * n_transactions

\* ------------------------------------------------- estimate_support
Samples == { s \in SUBSET unique_transactions : Cardinality(s) = sample_size }

\* p_hat + z * sqrt(p_hat * (1 - p_hat) / n) >= min_support with
\* p_hat = count / n, decided in integers: p_hat >= min_support, or
\* z^2 * p_hat * (1 - p_hat) / n >= (min_support - p_hat)^2
UpperBoundMeets(count) ==
    LET n   == sample_size
        num == min_support[1]
        den == min_support[2]
        gap == num * n - den * count
    IN  \/ gap <= 0
        \/ ZScoreNum * ZScoreNum * count * (n - count) * den * den
              >= ZScoreDen * ZScoreDen * n * gap * gap

\* the answers estimate_support(S) can give, over every sample
Answers(S) == { UpperBoundMeets(CountIn(S, s)) : s \in Samples }

\* ------------------------------------------------- find_frequent_1_itemsets
CountedItems == UNION { transactions[i] : i \in unique_transactions }

Frequent1 ==
    { Singleton(item) : item \in
        { it \in CountedItems : MeetsSupport(CountIn({it}, unique_transactions)) } }

Boundary1 ==
    { {it} : it \in
        { it \in CountedItems : ~MeetsSupport(CountIn({it}, unique_transactions)) } }

\* ------------------------------------------------- generate_candidates
\* list(items)[:-1]
Prefix(tab) == SubSeq(ListOf(tab), 1, Len(ListOf(tab)) - 1)

\* the pairs the double loop joins; prev_list is in the hash order of the
\* set of frozensets, so either itemset of a pair may come first
JoinPairs(prev) ==
    { p \in prev \X prev : p[1] # p[2] /\ Prefix(p[1]) = Prefix(p[2]) }

Pruned(S) == \E boundary \in boundary_sets : boundary \subseteq S

\* the candidates estimate_support is called on
Asked(prev) ==
    { S \in { Elems(p[1]) \cup Elems(p[2]) : p \in JoinPairs(prev) } : ~Pruned(S) }

\* the frozenset objects candidates.add can keep for the candidate S
Layouts(S, prev) ==
    { Union(p[1], p[2]) :
        p \in { q \in JoinPairs(prev) : Elems(q[1]) \cup Elems(q[2]) = S } }

\* what generate_candidates can end with for the candidate S: one of its
\* frozenset objects added (some call answered true) or nothing added
Outcomes(S, prev) ==
    (IF TRUE \in Answers(S) THEN { {t} : t \in Layouts(S, prev) } ELSE {})
        \cup (IF FALSE \in Answers(S) THEN { {} } ELSE {})

\* every candidate set generate_candidates can return
RECURSIVE CandidateSets(_, _)
CandidateSets(Ss, prev) ==
    IF Ss = {} THEN { {} }
    ELSE { r \cup o : r \in CandidateSets(Ss \ {CHOOSE x \in Ss : TRUE}, prev),
                      o \in Outcomes(CHOOSE x \in Ss : TRUE, prev) }

\* random.sample needs 0 <= sample_size <= population, and p_hat divides by
\* sample_size
CanSample == 0 < sample_size /\ sample_size <= Cardinality(unique_transactions)

\* ------------------------------------------------- calculate_support
Matches(cands, i) == { c \in cands : Elems(c) \subseteq transactions[i] }

\* two faulty removal rules, kept for comparison with the code's rule:
\* a transaction missing some candidate, a transaction matching a candidate
RemovableSomeUnmatched(cands) ==
    { i \in unique_transactions : Matches(cands, i) # cands }
RemovableMatched(cands) ==
    { i \in unique_transactions : Matches(cands, i) # {} }
\* removable_transactions: the active transactions matching no candidate
Removable(cands) ==
    { i \in unique_transactions : Matches(cands, i) = {} }

\* the keys of the supports dict: candidates matched at least once
Counted(cands) ==
    { c \in cands : CountIn(Elems(c), unique_transactions) > 0 }

FrequentK(cands) ==
    { c \in Counted(cands) : MeetsSupport(CountIn(Elems(c), unique_transactions)) }

BoundaryK(cands) ==
    { Elems(c) : c \in
        { d \in Counted(cands) :
            ~MeetsSupport(CountIn(Elems(d), unique_transactions)) } }

\* k += 1 (and, for comparison, a loop that does not advance)
NextLevelStuck(level) == level
NextLevel(level) == level + 1

\* --------------------------------------------------------------------- Init
TransactionLists(pool) ==
    UNION { [1..n -> pool] : n \in 0..MaxTransactions }

InitOver(pool) ==
    /\ transactions \in TransactionLists(pool)
    /\ min_support \in MinSupports
    /\ sample_size_arg \in SampleSizes
    /\ n_transactions = 0
    /\ sample_size = 0
    /\ frequent_itemsets = EmptyDict
    /\ boundary_sets = {}
    /\ unique_transactions = {}
    /\ pc = "new"
    /\ k = 0
    /\ candidates = {}
    /\ error = "none"
    /\ calls = 0
    /\ estimateAllTrue = TRUE
    /\ estimateLog = [yes |-> {}, no |-> {}]
    /\ sameAnswers = TRUE
    /\ firstResult = EmptyDict

Init == InitOver(TransactionPool)

InitClosure == InitOver(ClosurePool)

\* ------------------------------------------------------------------ actions
\* AprioriMiner.__init__
Construct ==
    /\ pc = "new"
    /\ n_transactions' = Len(transactions)
    /\ sample_size' = IF sample_size_arg <= Len(transactions)
                      THEN sample_size_arg ELSE Len(transactions)
    /\ frequent_itemsets' = EmptyDict
    /\ boundary_sets' = {}
    /\ unique_transactions' = AllIndices
    /\ pc' = "ready"
    /\ UNCHANGED << args, k, candidates, error, calls, history >>

\* mine_frequent_itemsets up to the loop: level 1.  The first call, or a
\* second call on the same instance after the first returned.
FindFrequent1 ==
    /\ pc = "ready" \/ (pc = "done" /\ calls = 1)
    /\ frequent_itemsets' = Put(frequent_itemsets, 1, Frequent1)
    /\ boundary_sets' = boundary_sets \cup Boundary1
    /\ k' = 2
    /\ candidates' = {}
    /\ calls' = calls + 1
    /\ firstResult' = IF calls = 1 THEN ElemsOf(frequent_itemsets)
                      ELSE firstResult
    /\ pc' = "loop"
    /\ UNCHANGED << args, n_transactions, sample_size, unique_transactions,
                    error, estimateAllTrue, estimateLog, sameAnswers >>

\* the loop test fails: return self.frequent_itemsets
Return ==
    /\ pc = "loop"
    /\ frequent_itemsets[k - 1] = {}
    /\ pc' = "done"
    /\ UNCHANGED << args, n_transactions, sample_size, frequent_itemsets,
                    boundary_sets, unique_transactions, k, candidates,
                    error, calls, history >>

\* generate_candidates(self.frequent_itemsets[k-1]), and the break
GenerateCandidates ==
    /\ pc = "loop"
    /\ frequent_itemsets[k - 1] # {}
    /\ LET prev  == frequent_itemsets[k - 1]
           asked == Asked(prev)
       IN  /\ asked # {} => CanSample
           /\ \E cands \in CandidateSets(asked, prev) :
                LET yes == { Elems(c) : c \in cands }
                    no  == asked \ yes
                IN  /\ candidates' = cands
                    /\ pc' = IF cands = {} THEN "done" ELSE "count"
                    /\ estimateAllTrue' = (estimateAllTrue /\ no = {})
                    /\ estimateLog' =
                         IF calls = 1
                         THEN [yes |-> estimateLog.yes \cup yes,
                               no  |-> estimateLog.no \cup no]
                         ELSE estimateLog
                    /\ sameAnswers' =
                         IF calls = 1 THEN sameAnswers
                         ELSE /\ sameAnswers
                              /\ yes \cap estimateLog.no = {}
                              /\ no \cap estimateLog.yes = {}
    /\ UNCHANGED << args, n_transactions, sample_size, frequent_itemsets,
                    boundary_sets, unique_transactions, k, error, calls,
                    firstResult >>

\* estimate_support raises inside generate_candidates: random.sample on a
\* sample larger than the active set, or count / 0
GenerateCandidatesRaises ==
    /\ pc = "loop"
    /\ frequent_itemsets[k - 1] # {}
    /\ Asked(frequent_itemsets[k - 1]) # {}
    /\ ~CanSample
    /\ error' = IF sample_size = 0 THEN "ZeroDivisionError" ELSE "ValueError"
    /\ pc' = "crashed"
    /\ UNCHANGED << args, n_transactions, sample_size, frequent_itemsets,
                    boundary_sets, unique_transactions, k, candidates,
                    calls, history >>

\* calculate_support(candidates), the partition by threshold, k += 1
CalculateSupport ==
    /\ pc = "count"
    /\ frequent_itemsets' = Put(frequent_itemsets, k, FrequentK(candidates))
    /\ boundary_sets' = boundary_sets \cup BoundaryK(candidates)
    /\ unique_transactions' = unique_transactions \ Removable(candidates)
    /\ k' = NextLevel(k)
    /\ pc' = "loop"
    /\ UNCHANGED << args, n_transactions, sample_size, candidates, error,
                    calls, history >>

Next ==
    \/ Construct
    \/ FindFrequent1
    \/ Return
    \/ GenerateCandidates
    \/ GenerateCandidatesRaises
    \/ CalculateSupport

Spec == Init /\ [][Next]_vars

\* a step of a call in progress: the loop test and generate_candidates
\* ("loop"), or calculate_support ("count")
MineStep ==
    /\ pc \in {"loop", "count"}
    /\ pc' \in {"loop", "count", "done", "crashed"}
    /\ pc' # pc

\* a call in progress runs on: no step of it waits on anything
FairSpec == Spec /\ WF_pc(MineStep)

\* the same miner on transactions over five items
ClosureSpec == InitClosure /\ [][Next]_vars


\* ------------------------------------------------------------------ claims
AllItems == UNION { transactions[i] : i \in AllIndices }

\* min_support in (0, 1], a non-empty transaction list, sample_size > 0
ValidConfig ==
    /\ 0 < min_support[1]
    /\ min_support[1] <= min_support[2]
    /\ Len(transactions) > 0
    /\ sample_size_arg > 0

\* S is frequent over the full original transaction list
TrulyFrequent(S) ==
    CountIn(S, AllIndices) * min_support[2] >= min_support[1] * Len(transactions)

Returned == pc = "done" /\ calls = 1

\* generate_candidates is about to run at level k and will call
\* estimate_support
EstimateInvoked ==
    /\ pc = "loop"
    /\ frequent_itemsets[k - 1] # {}
    /\ Asked(frequent_itemsets[k - 1]) # {}

C2_Completeness ==
    (Returned /\ estimateAllTrue /\ ValidConfig) =>
        \A S \in (SUBSET AllItems) \ {{}} :
            TrulyFrequent(S) =>
                /\ Cardinality(S) \in DOMAIN frequent_itemsets
                /\ S \in ElemsOf(frequent_itemsets)[Cardinality(S)]

\* C3: whenever estimate_support is invoked, the sample size it uses is at
\* most the number of active indices.
C3_SampleWithinActive ==
    (EstimateInvoked /\ calls = 1 /\ ValidConfig) =>
        sample_size <= Cardinality(unique_transactions)

\* C4: a miner exists only for a valid configuration; construction with
\* an invalid one ends in InvalidConfiguration.
C4_InvalidConfigurationRejected ==
    (pc # "new" /\ ~ValidConfig) =>
        (pc = "rejected" /\ error = "InvalidConfiguration")

\* C5: a second call on the same instance returns the table the first call
\* returned, when the estimator answers as it did in the first call.
C5_SecondCallSameTable ==
    (pc = "done" /\ calls = 2 /\ sameAnswers /\ ValidConfig) =>
        ElemsOf(frequent_itemsets) = firstResult

\* C6: when estimate_support never rejects, every non-empty proper subset
\* of an itemset of the returned table is in the table, under its size.
C6_DownwardClosure ==
    (Returned /\ estimateAllTrue /\ ValidConfig) =>
        \A j \in DOMAIN frequent_itemsets : \A t \in frequent_itemsets[j] :
            \A I \in (SUBSET Elems(t)) \ {{}, Elems(t)} :
                I \in ElemsOf(frequent_itemsets)[Cardinality(I)]

\* the loop body runs at level k
InLoopBody ==
    \/ pc = "count"
    \/ pc = "loop" /\ frequent_itemsets[k - 1] # {}

\* C7: the level loop halts; its body runs at level k only with a non-empty
\* frequent_{k-1}, counting only a non-empty candidate set, and at no level
\* above the number of distinct items plus one.
C7_Termination ==
    /\ [](InLoopBody => k <= Cardinality(AllItems) + 1)
    /\ [](pc = "count" => candidates # {} /\ frequent_itemsets[k - 1] # {})
    /\ (pc \in {"loop", "count"}) ~> (pc \in {"done", "crashed"})

C7_Witness ==
    /\ pc = "done"
    /\ ValidConfig
    /\ Cardinality(AllItems) >= 3
    /\ k = Cardinality(AllItems) + 1

\* C8: in the first call, every candidate about to be counted is contained
\* in as many active transactions as transactions of the full list.
C8_ActiveCountIsExact ==
    (pc = "count" /\ calls = 1) =>
        \A c \in candidates :
            CountIn(Elems(c), unique_transactions) = CountIn(Elems(c), AllIndices)

C8_Witness ==
    /\ pc = "count"
    /\ calls = 1
    /\ k >= 3
    /\ unique_transactions # AllIndices

\* C9: after the counting of a level, every candidate of that level is in
\* frequent_k or in the Boundary Set.
C9_LevelPartition ==
    (pc = "loop" /\ k > 2 /\ calls = 1) =>
        \A c \in candidates :
            \/ c \in frequent_itemsets[k - 1]
            \/ Elems(c) \in boundary_sets

\* C10: in the first call, whenever the loop body is entered (so whenever
\* estimate_support can be invoked) the active set is not empty.
C10_ActiveNonEmpty ==
    (calls = 1 /\ InLoopBody) => unique_transactions # {}

C10_Witness ==
    /\ EstimateInvoked
    /\ calls = 1
    /\ k >= 3
    /\ unique_transactions # AllIndices
    /\ unique_transactions # {}

=============================================================================
